---- MODULE Spec2Model ----
(***************************************************************************)
(* Model of the helper functions of the OPERA case-study notebooks:        *)
(*   search_to_df     (04_Case_Studies/1a-Flooding-case-study.ipynb)       *)
(*   urls_to_dataset  (04_Case_Studies/1a-Flooding-case-study.ipynb)       *)
(*   mosaic_and_dataset, filter_search_by_cc                               *)
(*                    (04_Case_Studies/1b-BhakraNangal-Reservoir.ipynb)    *)
(* Python strings are sequences of one-character strings, so that          *)
(* str.split and the `in` substring test are computed, not assumed.        *)
(***************************************************************************)
EXTENDS Integers, Sequences, FiniteSets, TLC

VARIABLES
    results,        \* list(search.items_as_dicts()): the search results
    layer_name,     \* the layer_name argument of search_to_df
    search_pc,      \* position of the search_to_df call: "ready", "returned", "raised"
    search_exc,     \* exception raised by search_to_df ("none" when it returned)
    picked,         \* the (result position, asset key) pairs that passed `layer_name in key`
    granules,       \* the DataFrame returned by search_to_df (<<>> when none was returned)
    granule_dataframe, \* the argument of urls_to_dataset
    pc,             \* position of the urls_to_dataset call
    k,              \* position of the iterrows() loop (1-based row number)
    open_handles,   \* rows whose rasterio dataset handle is open
    frame,          \* values read inside the with block of the current row
    dataset_list,   \* the DataArrays built so far
    cube,           \* the value returned by urls_to_dataset (NoCube when none)
    exc,            \* exception raised by urls_to_dataset ("none" otherwise)
    opened,         \* history: the rows rasterio.open was called for, in call order
    failed_row,     \* history: the row whose open or read failed (0 when none)
    failed_op,      \* history: the operation that failed: "none", "open", "read"
    calls,          \* number of calls of urls_to_dataset started so far
    past_opens,     \* history: the rows opened by the calls that are over
    m_pc,           \* position of the mosaic_and_dataset call
    merged,         \* mosaicked_img (its shape) and mosaic_transform
    m_crs,          \* the crs string read from the first row's raster
    mosaic,         \* the DataArray returned by mosaic_and_dataset (NoCube when none)
    m_exc,          \* exception raised by mosaic_and_dataset ("none" otherwise)
    m_failed,       \* history: the row whose raster could not be opened or read (0 when none)
    cc_results,     \* the results argument of filter_search_by_cc
    cloud_threshold, \* the cloud_threshold argument of filter_search_by_cc
    cc_pc,          \* position of the filter_search_by_cc call
    cc_i,           \* position of the `for result in results` loop (1-based)
    cloud_cover,    \* the local cloud_cover of the current result
    filtered_results, \* the local list filtered_results, as positions of cc_results
    cc_return,      \* the list returned by filter_search_by_cc (<<>> when none)
    cc_exc,         \* exception raised by filter_search_by_cc ("none" otherwise)
    cc_opened,      \* history: the results whose raster was opened, in call order
    cc_handles,     \* results whose rasterio dataset handle is open
    gr_granules,    \* the granules table of the wildfire notebook
    refined_granules, \* the table of hrefs grouped by day of acquisition
    hrefs_of_interest, \* the groups kept for the dates of interest
    panels,         \* the panels plotted so far: title date and rasters shown
    gr_pc,          \* position in the cells of the wildfire notebook
    workflow,       \* the case-study notebook whose cells are run
    flow_pc,        \* position in the cells between search_to_df and urls_to_dataset
    stall_row       \* the row whose raster read never returns (0 when none)

searchVars == <<results, layer_name, search_pc, search_exc, picked, granules>>
urlsVars == <<granule_dataframe, pc, k, open_handles, frame, dataset_list, cube, exc,
              opened, failed_row, failed_op>>
callVars == <<calls, past_opens>>
mosaicVars == <<m_pc, merged, m_crs, mosaic, m_exc, m_failed>>
filterVars == <<cc_results, cloud_threshold, cc_pc, cc_i, cloud_cover, filtered_results,
                cc_return, cc_exc, cc_opened, cc_handles>>
greeceVars == <<gr_granules, refined_granules, hrefs_of_interest, panels, gr_pc>>
flowVars == <<workflow, flow_pc>>
extraVars == <<filterVars, greeceVars, flowVars, stall_row>>
vars == <<searchVars, urlsVars, callVars, mosaicVars, extraVars>>

-----------------------------------------------------------------------------
(* Bounds of the model *)
MaxResults == 2     \* longest list of search results
MaxAssets == 2      \* most assets in one search result
MaxRows == 3        \* longest granule table handed to urls_to_dataset

-----------------------------------------------------------------------------
(* String literals *)
\* asset key "0_B01_WTR"
K_B01_WTR ==
    <<"0","_","B","0","1","_","W","T","R">>

\* asset key "0_B02_BWTR"
K_B02_BWTR ==
    <<"0","_","B","0","2","_","B","W","T","R">>

\* layer name "B01_WTR"
L_B01_WTR ==
    <<"B","0","1","_","W","T","R">>

\* layer name "WTR" (a substring of both asset keys)
L_WTR ==
    <<"W","T","R">>

\* "s3://d_1/OPERA_L3_DSWx-HLS_T11SQA_20230828T181921Z_20230831T000636Z_S2A_30_v1.0_B01_WTR.tif"
HREF_T11SQA ==
    <<"s","3",":","/","/","d","_","1","/","O","P","E","R","A","_","L","3","_","D","S","W",
      "x","-","H","L","S","_","T","1","1","S","Q","A","_","2","0","2","3","0","8","2","8",
      "T","1","8","1","9","2","1","Z","_","2","0","2","3","0","8","3","1","T","0","0","0",
      "6","3","6","Z","_","S","2","A","_","3","0","_","v","1",".","0","_","B","0","1","_",
      "W","T","R",".","t","i","f">>

\* "s3://d_1/OPERA_L3_DSWx-HLS_T11SQA_20230828T181921Z_20230831T000636Z_S2A_30_v1.0_B02_BWTR.tif"
HREF_T11SQA_B02 ==
    <<"s","3",":","/","/","d","_","1","/","O","P","E","R","A","_","L","3","_","D","S","W",
      "x","-","H","L","S","_","T","1","1","S","Q","A","_","2","0","2","3","0","8","2","8",
      "T","1","8","1","9","2","1","Z","_","2","0","2","3","0","8","3","1","T","0","0","0",
      "6","3","6","Z","_","S","2","A","_","3","0","_","v","1",".","0","_","B","0","2","_",
      "B","W","T","R",".","t","i","f">>

\* "s3://d_1/OPERA_L3_DSWx-HLS_T15RTQ_20240501T165849Z_B01_WTR.tif"
HREF_T15RTQ ==
    <<"s","3",":","/","/","d","_","1","/","O","P","E","R","A","_","L","3","_","D","S","W",
      "x","-","H","L","S","_","T","1","5","R","T","Q","_","2","0","2","4","0","5","0","1",
      "T","1","6","5","8","4","9","Z","_","B","0","1","_","W","T","R",".","t","i","f">>

\* "s3://d_1/OPERA_L3_WTR.tif": a filename with three underscore-delimited fields
HREF_SHORT ==
    <<"s","3",":","/","/","d","_","1","/","O","P","E","R","A","_","L","3","_","W","T","R",
      ".","t","i","f">>

\* "s3://d_1/OPERA_L3_DSWx-HLS_T11SQA_20230905T181921Z_B01_WTR.tif"
HREF_T11SQA_2 ==
    <<"s","3",":","/","/","d","_","1","/","O","P","E","R","A","_","L","3","_","D","S","W",
      "x","-","H","L","S","_","T","1","1","S","Q","A","_","2","0","2","3","0","9","0","5",
      "T","1","8","1","9","2","1","Z","_","B","0","1","_","W","T","R",".","t","i","f">>

\* "s3://d_1/OPERA_L3_DSWx-HLS_T11SRA_20230828T181921Z_B01_WTR.tif"
HREF_T11SRA ==
    <<"s","3",":","/","/","d","_","1","/","O","P","E","R","A","_","L","3","_","D","S","W",
      "x","-","H","L","S","_","T","1","1","S","R","A","_","2","0","2","3","0","8","2","8",
      "T","1","8","1","9","2","1","Z","_","B","0","1","_","W","T","R",".","t","i","f">>

\* "s3://d_1/OPERA_L3_DSWx-HLS_T11SRV_20230828T181921Z_B01_WTR.tif"
HREF_T11SRV ==
    <<"s","3",":","/","/","d","_","1","/","O","P","E","R","A","_","L","3","_","D","S","W",
      "x","-","H","L","S","_","T","1","1","S","R","V","_","2","0","2","3","0","8","2","8",
      "T","1","8","1","9","2","1","Z","_","B","0","1","_","W","T","R",".","t","i","f">>

\* "s3://d_1/OPERA_L3_DSWx-HLS_T12STF_20230828T181921Z_B01_WTR.tif"
HREF_T12STF ==
    <<"s","3",":","/","/","d","_","1","/","O","P","E","R","A","_","L","3","_","D","S","W",
      "x","-","H","L","S","_","T","1","2","S","T","F","_","2","0","2","3","0","8","2","8",
      "T","1","8","1","9","2","1","Z","_","B","0","1","_","W","T","R",".","t","i","f">>

\* "s3://d_1/OPERA_L3_DIST-ALERT-HLS_T23MPS_20230801T132719Z_VEG-DIST-STATUS.tif"
HREF_T23MPS ==
    <<"s","3",":","/","/","d","_","1","/","O","P","E","R","A","_","L","3","_","D","I",
      "S","T","-","A","L","E","R","T","-","H","L","S","_","T","2","3","M","P","S","_",
      "2","0","2","3","0","8","0","1","T","1","3","2","7","1","9","Z","_","V","E","G",
      "-","D","I","S","T","-","S","T","A","T","U","S",".","t","i","f">>

\* tile identifier "T15RTQ"
T15RTQ ==
    <<"T","1","5","R","T","Q">>

\* tile identifier "T23MPS"
T23MPS ==
    <<"T","2","3","M","P","S">>

\* tile identifier "T11SQA"
T11SQA ==
    <<"T","1","1","S","Q","A">>

\* CRS string "EPSG:32611"
CRS_32611 ==
    <<"E","P","S","G",":","3","2","6","1","1">>

\* CRS string "EPSG:32615"
CRS_32615 ==
    <<"E","P","S","G",":","3","2","6","1","5">>

\* CRS string "EPSG:32612"
CRS_32612 ==
    <<"E","P","S","G",":","3","2","6","1","2">>

-----------------------------------------------------------------------------
(* Python built-ins used by the helpers *)

\* first position of the character sep in s (0 when sep does not occur)
str_find(s, sep) ==
    IF \E i \in 1..Len(s) : s[i] = sep
    THEN CHOOSE i \in 1..Len(s) : s[i] = sep /\ \A j \in 1..(i-1) : s[j] # sep
    ELSE 0

RECURSIVE str_split(_, _)
\* s.split(sep) for a one-character separator: the list of fields, empty fields kept
str_split(s, sep) ==
    LET i == str_find(s, sep)
    IN  IF i = 0 THEN <<s>>
        ELSE <<SubSeq(s, 1, i-1)>> \o str_split(SubSeq(s, i+1, Len(s)), sep)

\* variant of str_in: the last possible offset is never tried
str_in_short(sub, s) ==
    \E off \in 0..(Len(s) - Len(sub) - 1) :
        \A j \in 1..Len(sub) : s[off + j] = sub[j]

\* `sub in s` on strings: sub occurs in s at some offset, character by character
str_in(sub, s) ==
    \E off \in 0..(Len(s) - Len(sub)) :
        \A j \in 1..Len(sub) : s[off + j] = sub[j]

\* pd.DatetimeIndex / pd.Timestamp of an ISO 8601 string: the instant, in seconds.
\* An ISO string is modelled by its date (a day number) and its time of day.
pd_Timestamp(iso) == iso.day * 86400 + iso.sec

-----------------------------------------------------------------------------
(* Inputs: search results as returned by search.items_as_dicts() *)

AssetKeys == {K_B01_WTR, K_B02_BWTR}
\* '0_B01_WTR' is the layer name the notebooks pass
LayerNames == {K_B01_WTR, L_B01_WTR, L_WTR}
\* 2024-03-01T13:44:11Z and 2024-03-01T14:10:05Z (day 1 is 2024-03-01)
Datetimes == {[day |-> 1, sec |-> 49451], [day |-> 1, sec |-> 51005]}

SeqsUpTo(S, n) == UNION {[1..m -> S] : m \in 0..n}

\* the file an asset points to carries the band suffix of the asset's key
HrefsUnder(key) ==
    IF key = K_B01_WTR THEN {HREF_T11SQA, HREF_T15RTQ, HREF_SHORT}
    ELSE {HREF_T11SQA_B02}

\* result['assets']: a dict, i.e. items in insertion order with distinct keys
AssetItems ==
    UNION {{[key |-> key, value |-> [href |-> h]] : h \in HrefsUnder(key)} :
           key \in AssetKeys}
AssetDicts ==
    {d \in SeqsUpTo(AssetItems, MaxAssets) :
        \A i, j \in 1..Len(d) : i # j => d[i].key # d[j].key}

SearchResults == [properties : [datetime : Datetimes], assets : AssetDicts]
ResultLists == SeqsUpTo(SearchResults, MaxResults)

-----------------------------------------------------------------------------
(* search_to_df *)

\* [... for key, value in result['assets'].items() if layer_name in key]
\* for one result at position i: the items that pass the filter, in dict order
matching_items(result, layer) ==
    SelectSeq(result.assets, LAMBDA item : str_in(layer, item.key))

RECURSIVE comprehension_twice(_, _, _)
\* variant of comprehension: every selected item is emitted twice
comprehension_twice(res, layer, i) ==
    IF i > Len(res) THEN <<>>
    ELSE LET m == matching_items(res[i], layer)
         IN  [j \in 1..(2 * Len(m)) |->
                 [pos |-> i, key |-> m[(j + 1) \div 2].key,
                  value |-> m[(j + 1) \div 2].value]]
             \o comprehension_twice(res, layer, i + 1)

RECURSIVE comprehension(_, _, _)
\* [... for result in results for key, value in result['assets'].items()
\*      if layer_name in key], from result position i on
comprehension(res, layer, i) ==
    IF i > Len(res) THEN <<>>
    ELSE LET m == matching_items(res[i], layer)
         IN  [j \in 1..Len(m) |-> [pos |-> i, key |-> m[j].key, value |-> m[j].value]]
             \o comprehension(res, layer, i + 1)

\* variant of tile_id_of: the URL is not cut at its last '/'
tile_id_of_whole_url(href) ==
    LET fields == str_split(href, "_")
    IN  IF Len(fields) >= 4
        THEN [exc |-> "none", value |-> fields[4]]
        ELSE [exc |-> "IndexError", value |-> <<>>]

\* variant of tile_id_of: a short filename gets an empty tile identifier
tile_id_of_default(href) ==
    LET segments == str_split(href, "/")
        fields == str_split(segments[Len(segments)], "_")
    IN  IF Len(fields) >= 4
        THEN [exc |-> "none", value |-> fields[4]]
        ELSE [exc |-> "none", value |-> <<>>]

\* value['href'].split('/')[-1].split('_')[3]
tile_id_of(href) ==
    LET segments == str_split(href, "/")
        fields == str_split(segments[Len(segments)], "_")
    IN  IF Len(fields) >= 4
        THEN [exc |-> "none", value |-> fields[4]]
        ELSE [exc |-> "IndexError", value |-> <<>>]

\* pd.DataFrame(index=times, data=data): every column must have the length of
\* the index; row i pairs index[i] with each column's i-th value
pd_DataFrame(index, data) ==
    IF Len(data.hrefs) # Len(index) \/ Len(data.tile_id) # Len(index)
    THEN [exc |-> "ValueError", value |-> <<>>]
    ELSE [exc |-> "none",
          value |-> [i \in 1..Len(index) |->
                        [times |-> index[i], hrefs |-> data.hrefs[i],
                         tile_id |-> data.tile_id[i]]]]

\* the whole call: times, then data['hrefs'], then data['tile_id'], then the frame
search_to_df_call(res, layer) ==
    LET times == [i \in 1..Len(res) |-> pd_Timestamp(res[i].properties.datetime)]
        sel == comprehension(res, layer, 1)
        hrefs == [i \in 1..Len(sel) |-> sel[i].value.href]
        tiles == [i \in 1..Len(sel) |-> tile_id_of(sel[i].value.href)]
        pairs == [i \in 1..Len(sel) |-> <<sel[i].pos, sel[i].key>>]
    IN  IF \E i \in 1..Len(sel) : tiles[i].exc # "none"
        THEN [exc |-> "IndexError", value |-> <<>>, picked |-> pairs]
        ELSE LET df == pd_DataFrame(times,
                          [hrefs |-> hrefs,
                           tile_id |-> [i \in 1..Len(sel) |-> tiles[i].value]])
             IN  [exc |-> df.exc, value |-> df.value, picked |-> pairs]

\* variant of search_to_df: the matching assets are popped from the results
search_to_df_mutating ==
    /\ search_pc = "ready"
    /\ LET r == search_to_df_call(results, layer_name)
       IN  /\ search_pc' = IF r.exc = "none" THEN "returned" ELSE "raised"
           /\ search_exc' = r.exc
           /\ granules' = r.value
           /\ picked' = r.picked
           /\ results' = IF r.picked = <<>> THEN results ELSE <<>>
    /\ UNCHANGED layer_name
    /\ UNCHANGED <<urlsVars, callVars, mosaicVars, extraVars>>

\* search_to_df(results, layer_name): one call, from entry to return or raise
search_to_df ==
    /\ search_pc = "ready"
    /\ LET r == search_to_df_call(results, layer_name)
       IN  /\ search_pc' = IF r.exc = "none" THEN "returned" ELSE "raised"
           /\ search_exc' = r.exc
           /\ granules' = r.value
           /\ picked' = r.picked
    /\ UNCHANGED <<results, layer_name>>
    /\ UNCHANGED <<urlsVars, callVars, mosaicVars, extraVars>>

-----------------------------------------------------------------------------
(* The raster storage: what rasterio.open(href) gives access to *)

\* ds.crs, ds.transform (a, b, c, d, e, f), ds.width, ds.height, ds.count
raster_at(href) ==
    IF href = HREF_T15RTQ
    THEN [crs |-> CRS_32615, transform |-> <<30, 0, 400, 0, -30, 560>>,
          width |-> 3, height |-> 2, count |-> 2]
    ELSE IF href = HREF_T11SRA     \* the tile east of T11SQA, sharing its whole edge
    THEN [crs |-> CRS_32611, transform |-> <<30, 0, 160, 0, -30, 260>>,
          width |-> 2, height |-> 2, count |-> 1]
    ELSE IF href = HREF_T11SRV     \* east of T11SQA, one pixel row further south
    THEN [crs |-> CRS_32611, transform |-> <<30, 0, 160, 0, -30, 230>>,
          width |-> 3, height |-> 2, count |-> 1]
    ELSE IF href = HREF_T12STF     \* a tile of the neighbouring UTM zone
    THEN [crs |-> CRS_32612, transform |-> <<30, 0, 100, 0, -30, 200>>,
          width |-> 2, height |-> 2, count |-> 1]
    ELSE [crs |-> CRS_32611, transform |-> <<30, 0, 100, 0, -30, 260>>,
          width |-> 2, height |-> 2, count |-> 1]

\* ds.bounds of a north-up raster: (left, bottom, right, top)
ds_bounds(ds) ==
    LET a == ds.transform[1]
        c == ds.transform[3]
        e == ds.transform[5]
        f == ds.transform[6]
    IN  [xmin |-> c, ymin |-> f + e * ds.height, xmax |-> c + a * ds.width, ymax |-> f]

np_abs(x) == IF x < 0 THEN 0 - x ELSE x

\* ceil(p / q) for q > 0
CeilDiv(p, q) == IF p <= 0 THEN 0 ELSE ((p - 1) \div q) + 1

\* variant of np_arange: the values start one step late
np_arange_late(start, stop, step) ==
    LET n == IF step > 0 THEN CeilDiv(stop - start, step)
             ELSE IF step < 0 THEN CeilDiv(start - stop, 0 - step)
             ELSE 0
    IN  [i \in 1..n |-> start + i * step]

\* variant of np_arange: the stop value is included
np_arange_closed(start, stop, step) ==
    LET n == IF step > 0 THEN CeilDiv(stop - start, step)
             ELSE IF step < 0 THEN CeilDiv(start - stop, 0 - step)
             ELSE 0
    IN  [i \in 1..(n + 1) |-> start + (i - 1) * step]

\* np.arange(start, stop, step): start, start+step, ... short of stop
np_arange(start, stop, step) ==
    LET n == IF step > 0 THEN CeilDiv(stop - start, step)
             ELSE IF step < 0 THEN CeilDiv(start - stop, 0 - step)
             ELSE 0
    IN  [i \in 1..n |-> start + (i - 1) * step]

-----------------------------------------------------------------------------
(* Inputs: granule tables *)

TableHrefs == {HREF_T11SQA, HREF_T11SQA_2, HREF_T15RTQ}
IndexValues == {pd_Timestamp(d) : d \in Datetimes}
GranuleRows ==
    {[times |-> t, hrefs |-> h, tile_id |-> tile_id_of(h).value] :
        t \in IndexValues, h \in TableHrefs}
GranuleTables == SeqsUpTo(GranuleRows, MaxRows)

-----------------------------------------------------------------------------
(* urls_to_dataset *)

NoFrame == [crs |-> <<>>, xmin |-> 0, ymin |-> 0, xmax |-> 0, ymax |-> 0,
            x_res |-> 0, y_res |-> 0, img |-> <<>>]
NoCube == [dims |-> <<>>, shape |-> <<>>, time |-> <<>>, band |-> <<>>,
           lat |-> <<>>, lon |-> <<>>, crs |-> <<>>]

\* variant of read_frame: the CRS string is cut at its first ':' instead of its last
read_frame_authority(ds) ==
    LET crs_parts == str_split(ds.crs, ":")
        b == ds_bounds(ds)
    IN  [crs |-> crs_parts[1],
         xmin |-> b.xmin, ymin |-> b.ymin, xmax |-> b.xmax, ymax |-> b.ymax,
         x_res |-> np_abs(ds.transform[1]), y_res |-> np_abs(ds.transform[5]),
         img |-> <<ds.count, ds.height, ds.width>>]

\* the body of the with block: crs, bounds, resolutions and ds.read()
\* (img is represented by its shape (bands, rows, columns))
read_frame(ds) ==
    LET crs_parts == str_split(ds.crs, ":")
        b == ds_bounds(ds)
    IN  [crs |-> crs_parts[Len(crs_parts)],
         xmin |-> b.xmin, ymin |-> b.ymin, xmax |-> b.xmax, ymax |-> b.ymax,
         x_res |-> np_abs(ds.transform[1]), y_res |-> np_abs(ds.transform[5]),
         img |-> <<ds.count, ds.height, ds.width>>]

\* variant of make_da: the row coordinates run upward from ymin
make_da_lat_ascending(fr, i) ==
    LET lon == np_arange(fr.xmin, fr.xmax, fr.x_res)
        lat == np_arange(fr.ymin, fr.ymax, fr.y_res)
    IN  IF Len(lon) # fr.img[3] \/ Len(lat) # fr.img[2]
        THEN [exc |-> "ValueError", value |-> NoCube]
        ELSE [exc |-> "none",
              value |-> [dims |-> <<"band", "lat", "lon">>, shape |-> fr.img,
                         time |-> <<i>>, band |-> [b \in 1..fr.img[1] |-> b - 1],
                         lat |-> lat, lon |-> lon, crs |-> fr.crs]]

\* xr.DataArray(data=img, dims=["band", "lat", "lon"], coords=...) followed by
\* da.rio.write_crs(crs): raises ValueError when a coordinate's length differs
\* from the array's size along its dimension
make_da(fr, i) ==
    LET lon == np_arange(fr.xmin, fr.xmax, fr.x_res)
        lat == np_arange(fr.ymax, fr.ymin, 0 - fr.y_res)
    IN  IF Len(lon) # fr.img[3] \/ Len(lat) # fr.img[2]
        THEN [exc |-> "ValueError", value |-> NoCube]
        ELSE [exc |-> "none",
              value |-> [dims |-> <<"band", "lat", "lon">>, shape |-> fr.img,
                         time |-> <<i>>, band |-> [b \in 1..fr.img[1] |-> b - 1],
                         lat |-> lat, lon |-> lon, crs |-> fr.crs]]

RECURSIVE SortedSeq(_)
\* the elements of a finite set of integers in ascending order
SortedSeq(S) ==
    IF S = {} THEN <<>>
    ELSE LET m == CHOOSE x \in S : \A y \in S : x <= y
         IN  <<m>> \o SortedSeq(S \ {m})

Range(q) == {q[i] : i \in 1..Len(q)}

\* alignment of one indexed coordinate across the arrays (join="outer"):
\* kept as it is when all arrays agree, otherwise the sorted union
outer_join(coords) ==
    IF \A i \in 1..Len(coords) : coords[i] = coords[1]
    THEN coords[1]
    ELSE SortedSeq(UNION {Range(coords[i]) : i \in 1..Len(coords)})

\* variant of concat_time: the timestamps are put in ascending order
concat_time_sorted(list) ==
    LET t == [i \in 1..Len(list) |-> list[i].time[1]]
        perm == CHOOSE f \in [1..Len(t) -> 1..Len(t)] :
                    /\ \A i, j \in 1..Len(t) : i # j => f[i] # f[j]
                    /\ \A i, j \in 1..Len(t) : i < j => t[f[i]] <= t[f[j]]
    IN  [i \in 1..Len(t) |-> t[perm[i]]]

\* the time coordinate of xr.concat(dataset_list, dim='time'): the scalar time
\* coordinate of each array, in list order
concat_time(list) == [i \in 1..Len(list) |-> list[i].time[1]]

\* xr.concat(dataset_list, dim='time'): a new leading dimension time
xr_concat(list) ==
    LET band == outer_join([i \in 1..Len(list) |-> list[i].band])
        lat == outer_join([i \in 1..Len(list) |-> list[i].lat])
        lon == outer_join([i \in 1..Len(list) |-> list[i].lon])
    IN  [dims |-> <<"time", "band", "lat", "lon">>,
         shape |-> <<Len(list), Len(band), Len(lat), Len(lon)>>,
         time |-> concat_time(list), band |-> band, lat |-> lat, lon |-> lon,
         crs |-> list[1].crs]

\* variant of squeeze: only a band dimension of length 1 is dropped
squeeze_band_only(da) ==
    LET keep == SelectSeq([i \in 1..Len(da.dims) |-> i],
                          LAMBDA i : ~(da.dims[i] = "band" /\ da.shape[i] = 1))
    IN  [da EXCEPT !.dims = [j \in 1..Len(keep) |-> da.dims[keep[j]]],
                   !.shape = [j \in 1..Len(keep) |-> da.shape[keep[j]]]]

\* DataArray.squeeze(): every dimension of length 1 is dropped
squeeze(da) ==
    LET keep == SelectSeq([i \in 1..Len(da.dims) |-> i], LAMBDA i : da.shape[i] # 1)
    IN  [da EXCEPT !.dims = [j \in 1..Len(keep) |-> da.dims[keep[j]]],
                   !.shape = [j \in 1..Len(keep) |-> da.shape[keep[j]]]]

NRows == Len(granule_dataframe)

\* variant of OpenOk: a later call reuses what an earlier call opened
OpenOk_cached ==
    /\ pc = "iter" /\ k <= NRows
    /\ open_handles' = open_handles \cup {k}
    /\ opened' = IF calls > 1 THEN opened ELSE Append(opened, k)
    /\ pc' = "with"
    /\ UNCHANGED <<granule_dataframe, k, frame, dataset_list, cube, exc, failed_row,
                   failed_op>>
    /\ UNCHANGED <<searchVars, callVars, mosaicVars, extraVars>>

\* rasterio.open(row.hrefs) succeeds and the with block is entered
OpenOk ==
    /\ pc = "iter" /\ k <= NRows
    /\ open_handles' = open_handles \cup {k}
    /\ opened' = Append(opened, k)
    /\ pc' = "with"
    /\ UNCHANGED <<granule_dataframe, k, frame, dataset_list, cube, exc, failed_row,
                   failed_op>>
    /\ UNCHANGED <<searchVars, callVars, mosaicVars, extraVars>>

\* variant of OpenFails: the row is skipped and the loop goes on
OpenFails_skip ==
    /\ pc = "iter" /\ k <= NRows
    /\ opened' = Append(opened, k)
    /\ failed_row' = k /\ failed_op' = "open"
    /\ k' = k + 1
    /\ UNCHANGED <<granule_dataframe, pc, open_handles, frame, dataset_list, cube, exc>>
    /\ UNCHANGED <<searchVars, callVars, mosaicVars, extraVars>>

\* rasterio.open(row.hrefs) raises: the exception leaves urls_to_dataset
OpenFails ==
    /\ pc = "iter" /\ k <= NRows
    /\ opened' = Append(opened, k)
    /\ failed_row' = k /\ failed_op' = "open"
    /\ pc' = "raised" /\ exc' = "RasterioIOError"
    /\ dataset_list' = <<>>
    /\ UNCHANGED <<granule_dataframe, k, open_handles, frame, cube>>
    /\ UNCHANGED <<searchVars, callVars, mosaicVars, extraVars>>

\* the body of the with block runs to its end
ReadOk ==
    /\ pc = "with" /\ k # stall_row
    /\ frame' = read_frame(raster_at(granule_dataframe[k].hrefs))
    /\ pc' = "exit_ok"
    /\ UNCHANGED <<granule_dataframe, k, open_handles, dataset_list, cube, exc,
                   opened, failed_row, failed_op>>
    /\ UNCHANGED <<searchVars, callVars, mosaicVars, extraVars>>

\* variant of ReadFails: a read that does not return is given up and raises
ReadFails_timeout ==
    /\ pc = "with"
    /\ failed_row' = k /\ failed_op' = "read"
    /\ pc' = "exit_err"
    /\ UNCHANGED <<granule_dataframe, k, open_handles, frame, dataset_list, cube, exc,
                   opened>>
    /\ UNCHANGED <<searchVars, callVars, mosaicVars, extraVars>>

\* ds.read() (or a metadata read) raises inside the with block; the read of
\* row stall_row never returns, neither with data nor with an error
ReadFails ==
    /\ pc = "with" /\ k # stall_row
    /\ failed_row' = k /\ failed_op' = "read"
    /\ pc' = "exit_err"
    /\ UNCHANGED <<granule_dataframe, k, open_handles, frame, dataset_list, cube, exc,
                   opened>>
    /\ UNCHANGED <<searchVars, callVars, mosaicVars, extraVars>>

\* leaving the with block normally: the dataset is closed
ExitWith ==
    /\ pc = "exit_ok"
    /\ open_handles' = open_handles \ {k}
    /\ pc' = "build"
    /\ UNCHANGED <<granule_dataframe, k, frame, dataset_list, cube, exc, opened,
                   failed_row, failed_op>>
    /\ UNCHANGED <<searchVars, callVars, mosaicVars, extraVars>>

\* variant of ExitWithRaise: the dataset is left open
ExitWithRaise_leak ==
    /\ pc = "exit_err"
    /\ pc' = "raised" /\ exc' = "RasterioIOError"
    /\ dataset_list' = <<>>
    /\ UNCHANGED <<granule_dataframe, k, open_handles, frame, cube, opened, failed_row,
                   failed_op>>
    /\ UNCHANGED <<searchVars, callVars, mosaicVars, extraVars>>

\* leaving the with block with an exception: the dataset is closed, then the
\* exception leaves urls_to_dataset
ExitWithRaise ==
    /\ pc = "exit_err"
    /\ open_handles' = open_handles \ {k}
    /\ pc' = "raised" /\ exc' = "RasterioIOError"
    /\ dataset_list' = <<>>
    /\ UNCHANGED <<granule_dataframe, k, frame, cube, opened, failed_row, failed_op>>
    /\ UNCHANGED <<searchVars, callVars, mosaicVars, extraVars>>

\* lon, lat, the DataArray, write_crs and dataset_list.append(da)
BuildArray ==
    /\ pc = "build"
    /\ LET r == make_da(frame, granule_dataframe[k].times)
       IN  IF r.exc = "none"
           THEN /\ dataset_list' = Append(dataset_list, r.value)
                /\ k' = k + 1
                /\ pc' = "iter"
                /\ exc' = exc
           ELSE /\ dataset_list' = <<>>
                /\ k' = k
                /\ pc' = "raised"
                /\ exc' = r.exc
    /\ frame' = NoFrame
    /\ UNCHANGED <<granule_dataframe, open_handles, cube, opened, failed_row, failed_op>>
    /\ UNCHANGED <<searchVars, callVars, mosaicVars, extraVars>>

\* variant of Return: an empty list gives an empty cube
Return_empty_cube ==
    /\ pc = "iter" /\ k > NRows
    /\ pc' = "returned" /\ exc' = exc
    /\ cube' = IF dataset_list = <<>> THEN NoCube ELSE squeeze(xr_concat(dataset_list))
    /\ dataset_list' = <<>>
    /\ UNCHANGED <<granule_dataframe, k, open_handles, frame, opened, failed_row,
                   failed_op>>
    /\ UNCHANGED <<searchVars, callVars, mosaicVars, extraVars>>

\* return xr.concat(dataset_list, dim='time').squeeze()
\* (xr.concat raises ValueError on an empty list)
Return ==
    /\ pc = "iter" /\ k > NRows
    /\ IF dataset_list = <<>>
       THEN /\ pc' = "raised" /\ exc' = "ValueError"
            /\ cube' = cube
       ELSE /\ pc' = "returned" /\ exc' = exc
            /\ cube' = squeeze(xr_concat(dataset_list))
    /\ dataset_list' = <<>>
    /\ UNCHANGED <<granule_dataframe, k, open_handles, frame, opened, failed_row,
                   failed_op>>
    /\ UNCHANGED <<searchVars, callVars, mosaicVars, extraVars>>

\* the number of times the calling cell is run
MaxCalls == 2

\* the calling cell is run again with the same table: every local of
\* urls_to_dataset is created anew, nothing of the previous call is passed in
CallAgain ==
    /\ pc \in {"returned", "raised"}
    /\ calls < MaxCalls
    /\ calls' = calls + 1
    /\ past_opens' = Append(past_opens, [opens |-> opened, outcome |-> pc])
    /\ pc' = "iter" /\ k' = 1
    /\ frame' = NoFrame /\ dataset_list' = <<>> /\ cube' = NoCube /\ exc' = "none"
    /\ opened' = <<>> /\ failed_row' = 0 /\ failed_op' = "none"
    /\ UNCHANGED <<granule_dataframe, open_handles>>
    /\ UNCHANGED <<searchVars, mosaicVars, extraVars>>

-----------------------------------------------------------------------------
(* mosaic_and_dataset (04_Case_Studies/1b-BhakraNangal-Reservoir.ipynb) *)

MaxTiles == 3       \* longest granule table handed to mosaic_and_dataset

\* tables of tiles of one acquisition
MosaicHrefs == {HREF_T11SQA, HREF_T11SRA, HREF_T11SRV, HREF_T12STF}
MosaicRows ==
    {[times |-> pd_Timestamp([day |-> 1, sec |-> 49451]), hrefs |-> h,
      tile_id |-> tile_id_of(h).value] : h \in MosaicHrefs}
MosaicTables == SeqsUpTo(MosaicRows, MaxTiles)

NoMerged == [shape |-> <<>>, transform |-> <<>>]

SetMin(S) == CHOOSE x \in S : \A y \in S : x <= y
SetMax(S) == CHOOSE x \in S : \A y \in S : y <= x

\* int(round(p / q)) for q > 0 and p >= 0
int_round(p, q) == (2 * p + q) \div (2 * q)

\* variant of merge: the output covers the first raster's extent only
merge_first_extent(hrefs) ==
    LET first == raster_at(hrefs[1])
        b == ds_bounds(first)
        res_x == np_abs(first.transform[1])
        res_y == np_abs(first.transform[5])
    IN  [shape |-> <<first.count, int_round(b.ymax - b.ymin, res_y),
                     int_round(b.xmax - b.xmin, res_x)>>,
         transform |-> <<res_x, 0, b.xmin, 0, 0 - res_y, b.ymax>>]

\* rasterio.merge.merge(list of hrefs) with its defaults: resolution and band
\* count of the first raster, extent = the union of the rasters' bounds,
\* returns (array, transform); the array is represented by its shape
merge(hrefs) ==
    LET first == raster_at(hrefs[1])
        bs == [i \in 1..Len(hrefs) |-> ds_bounds(raster_at(hrefs[i]))]
        dst_w == SetMin({bs[i].xmin : i \in 1..Len(hrefs)} \cup {bs[i].xmax : i \in 1..Len(hrefs)})
        dst_e == SetMax({bs[i].xmin : i \in 1..Len(hrefs)} \cup {bs[i].xmax : i \in 1..Len(hrefs)})
        dst_s == SetMin({bs[i].ymin : i \in 1..Len(hrefs)} \cup {bs[i].ymax : i \in 1..Len(hrefs)})
        dst_n == SetMax({bs[i].ymin : i \in 1..Len(hrefs)} \cup {bs[i].ymax : i \in 1..Len(hrefs)})
        res_x == np_abs(first.transform[1])
        res_y == np_abs(first.transform[5])
    IN  [shape |-> <<first.count, int_round(dst_n - dst_s, res_y),
                     int_round(dst_e - dst_w, res_x)>>,
         transform |-> <<res_x, 0, dst_w, 0, 0 - res_y, dst_n>>]

\* rasterio.transform.array_bounds(height, width, transform): (west, south, east, north)
array_bounds(height, width, transform) ==
    [xmin |-> transform[3], ymin |-> transform[6] + transform[5] * height,
     xmax |-> transform[3] + transform[1] * width, ymax |-> transform[6]]

\* variant of make_mosaic_da: the row coordinates run upward from ymin
make_mosaic_da_lat_ascending(mg, crs) ==
    LET bounds == array_bounds(mg.shape[2], mg.shape[3], mg.transform)
        x_res == np_abs(mg.transform[1])
        y_res == np_abs(mg.transform[5])
        lon == np_arange(bounds.xmin, bounds.xmax, x_res)
        lat == np_arange(bounds.ymin, bounds.ymax, y_res)
    IN  IF Len(lon) # mg.shape[3] \/ Len(lat) # mg.shape[2]
        THEN [exc |-> "ValueError", value |-> NoCube]
        ELSE [exc |-> "none",
              value |-> [dims |-> <<"band", "lat", "lon">>, shape |-> mg.shape,
                         time |-> <<>>, band |-> <<>>,
                         lat |-> lat, lon |-> lon, crs |-> crs]]

\* bounds, x_res, y_res, lon, lat, xr.DataArray(...) with the coordinates lon
\* and lat only, and da.rio.write_crs(crs)
make_mosaic_da(mg, crs) ==
    LET bounds == array_bounds(mg.shape[2], mg.shape[3], mg.transform)
        x_res == np_abs(mg.transform[1])
        y_res == np_abs(mg.transform[5])
        lon == np_arange(bounds.xmin, bounds.xmax, x_res)
        lat == np_arange(bounds.ymax, bounds.ymin, 0 - y_res)
    IN  IF Len(lon) # mg.shape[3] \/ Len(lat) # mg.shape[2]
        THEN [exc |-> "ValueError", value |-> NoCube]
        ELSE [exc |-> "none",
              value |-> [dims |-> <<"band", "lat", "lon">>, shape |-> mg.shape,
                         time |-> <<>>, band |-> <<>>,
                         lat |-> lat, lon |-> lon, crs |-> crs]]

TableHrefsList == [i \in 1..NRows |-> granule_dataframe[i].hrefs]

\* dataset = mosaic_and_dataset(granules), once urls_to_dataset is not running
CallMosaic ==
    /\ m_pc = "idle" /\ pc \in {"returned", "raised"}
    /\ m_pc' = "merge"
    /\ UNCHANGED <<merged, m_crs, mosaic, m_exc, m_failed>>
    /\ UNCHANGED <<searchVars, urlsVars, callVars, extraVars>>

\* merge(list(granule_dataframe.hrefs)) reads every tile
MergeOk ==
    /\ m_pc = "merge" /\ NRows >= 1
    /\ merged' = merge(TableHrefsList)
    /\ m_pc' = "crs"
    /\ UNCHANGED <<m_crs, mosaic, m_exc, m_failed>>
    /\ UNCHANGED <<searchVars, urlsVars, callVars, extraVars>>

\* merge([]) raises: there is no first raster
MergeNoInput ==
    /\ m_pc = "merge" /\ NRows = 0
    /\ m_pc' = "raised" /\ m_exc' = "IndexError"
    /\ UNCHANGED <<merged, m_crs, mosaic, m_failed>>
    /\ UNCHANGED <<searchVars, urlsVars, callVars, extraVars>>

\* variant of MergeFails: the unreadable tile is left out of the mosaic
MergeFails_skip ==
    /\ m_pc = "merge"
    /\ \E i \in 1..NRows :
          /\ NRows >= 2
          /\ m_failed' = i
          /\ merged' = merge([j \in 1..(NRows - 1) |->
                                 TableHrefsList[IF j < i THEN j ELSE j + 1]])
    /\ m_pc' = "crs"
    /\ UNCHANGED <<m_crs, mosaic, m_exc>>
    /\ UNCHANGED <<searchVars, urlsVars, callVars, extraVars>>

\* one of the tiles cannot be opened or read inside merge: the exception leaves
\* mosaic_and_dataset
MergeFails ==
    /\ m_pc = "merge"
    /\ \E i \in 1..NRows : m_failed' = i
    /\ m_pc' = "raised" /\ m_exc' = "RasterioIOError"
    /\ UNCHANGED <<merged, m_crs, mosaic>>
    /\ UNCHANGED <<searchVars, urlsVars, callVars, extraVars>>

\* variant of CrsOpenOk: the CRS is read from the last row's raster
CrsOpenOk_last ==
    /\ m_pc = "crs"
    /\ LET parts == str_split(raster_at(granule_dataframe[NRows].hrefs).crs, ":")
       IN  m_crs' = parts[Len(parts)]
    /\ m_pc' = "wrap"
    /\ UNCHANGED <<merged, mosaic, m_exc, m_failed>>
    /\ UNCHANGED <<searchVars, urlsVars, callVars, extraVars>>

\* with rasterio.open(granule_dataframe.iloc[0].hrefs) as ds:
\*     crs = str(ds.crs).split(':')[-1]
CrsOpenOk ==
    /\ m_pc = "crs"
    /\ LET parts == str_split(raster_at(granule_dataframe[1].hrefs).crs, ":")
       IN  m_crs' = parts[Len(parts)]
    /\ m_pc' = "wrap"
    /\ UNCHANGED <<merged, mosaic, m_exc, m_failed>>
    /\ UNCHANGED <<searchVars, urlsVars, callVars, extraVars>>

\* rasterio.open(granule_dataframe.iloc[0].hrefs) raises
CrsOpenFails ==
    /\ m_pc = "crs"
    /\ m_failed' = 1
    /\ m_pc' = "raised" /\ m_exc' = "RasterioIOError"
    /\ UNCHANGED <<merged, m_crs, mosaic>>
    /\ UNCHANGED <<searchVars, urlsVars, callVars, extraVars>>

\* the rest of mosaic_and_dataset: coordinates, DataArray, write_crs, return da
WrapMosaic ==
    /\ m_pc = "wrap"
    /\ LET r == make_mosaic_da(merged, m_crs)
       IN  /\ m_pc' = IF r.exc = "none" THEN "returned" ELSE "raised"
           /\ m_exc' = r.exc
           /\ mosaic' = r.value
    /\ UNCHANGED <<merged, m_crs, m_failed>>
    /\ UNCHANGED <<searchVars, urlsVars, callVars, extraVars>>

-----------------------------------------------------------------------------
(* filter_search_by_cc (04_Case_Studies/1b-BhakraNangal-Reservoir.ipynb) *)

MaxScenes == 2      \* longest list of results handed to filter_search_by_cc

\* values of result['properties']['eo:cloud_cover'], in percent
CloudCovers == {5, 10, 20, 25}
\* cloud_threshold: the default 10, the 20 of the deforestation notebook, and
\* a value a computed cloud fraction can be equal to
CloudThresholds == {10, 20, 25}

\* result['properties'], with or without the key 'eo:cloud_cover'
CcProperties ==
    {[key \in {"datetime"} |-> "2023-08-01T05:31:21Z"]}
    \cup {[key \in {"datetime", "eo:cloud_cover"} |->
              IF key = "datetime" THEN "2023-08-01T05:31:21Z" ELSE c] : c \in CloudCovers}

\* the rasters a DSWx result's '0_B01_WTR' asset can point to
CcHrefs == {"clear_B01_WTR.tif", "partly_B01_WTR.tif", "cloudy_B01_WTR.tif"}

\* result['assets']: a DSWx result has the key '0_B01_WTR', a DIST result has
\* 'VEG-DIST-STATUS' instead
CcAssets ==
    {[key \in {"0_B01_WTR"} |-> [href |-> h]] : h \in CcHrefs}
    \cup {[key \in {"VEG-DIST-STATUS"} |-> [href |-> "VEG-DIST-STATUS.tif"]]}

CcResults == [properties : CcProperties, assets : CcAssets]
CcResultLists == SeqsUpTo(CcResults, MaxScenes)

\* ds.read(1).flatten(): band 1 of the raster stored at href, row by row;
\* 253 is the cloud class of the WTR layer, 1 open water, 0 not water.
\* Every stored raster has four pixels, so that count/size and its product
\* with 100 are exact in binary floating point.
cc_img(href) ==
    IF href = "clear_B01_WTR.tif" THEN <<0, 1, 1, 0>>
    ELSE IF href = "partly_B01_WTR.tif" THEN <<0, 253, 1, 0>>
    ELSE <<253, 253, 253, 253>>

\* np.sum(np.isin(img, 253))
np_sum_isin(img, value) == Cardinality({n \in 1..Len(img) : img[n] = value})

\* variant of cloud_fraction: the cloud pixels are compared with the clear ones
cloud_fraction_of_clear(img) ==
    (100 * np_sum_isin(img, 253)) \div (Len(img) - np_sum_isin(img, 253) + 1)

\* 100*(np.sum(np.isin(img, 253))/img.size)
cloud_fraction(img) == (100 * np_sum_isin(img, 253)) \div Len(img)

CcLen == Len(cc_results)

\* try: cloud_cover = result['properties']['eo:cloud_cover'] succeeds
CcFromMetadata ==
    /\ cc_pc = "loop" /\ cc_i <= CcLen
    /\ "eo:cloud_cover" \in DOMAIN cc_results[cc_i].properties
    /\ cloud_cover' = cc_results[cc_i].properties["eo:cloud_cover"]
    /\ cc_pc' = "test"
    /\ UNCHANGED <<cc_results, cloud_threshold, cc_i, filtered_results, cc_return,
                   cc_exc, cc_opened, cc_handles>>
    /\ UNCHANGED <<searchVars, urlsVars, callVars, mosaicVars, greeceVars, flowVars, stall_row>>

\* variant of CcNoAsset: the result without the asset is skipped
CcNoAsset_skip ==
    /\ cc_pc = "loop" /\ cc_i <= CcLen
    /\ "eo:cloud_cover" \notin DOMAIN cc_results[cc_i].properties
    /\ "0_B01_WTR" \notin DOMAIN cc_results[cc_i].assets
    /\ cc_i' = cc_i + 1
    /\ UNCHANGED <<cc_results, cloud_threshold, cc_pc, cloud_cover, filtered_results,
                   cc_return, cc_exc, cc_opened, cc_handles>>
    /\ UNCHANGED <<searchVars, urlsVars, callVars, mosaicVars, greeceVars, flowVars, stall_row>>

\* except: href = result['assets']['0_B01_WTR']['href'] raises KeyError, which
\* nothing catches
CcNoAsset ==
    /\ cc_pc = "loop" /\ cc_i <= CcLen
    /\ "eo:cloud_cover" \notin DOMAIN cc_results[cc_i].properties
    /\ "0_B01_WTR" \notin DOMAIN cc_results[cc_i].assets
    /\ cc_pc' = "raised" /\ cc_exc' = "KeyError"
    /\ filtered_results' = <<>>
    /\ UNCHANGED <<cc_results, cloud_threshold, cc_i, cloud_cover, cc_return,
                   cc_opened, cc_handles>>
    /\ UNCHANGED <<searchVars, urlsVars, callVars, mosaicVars, greeceVars, flowVars, stall_row>>

\* except: ... with rasterio.open(href) as ds: the open succeeds
CcOpenOk ==
    /\ cc_pc = "loop" /\ cc_i <= CcLen
    /\ "eo:cloud_cover" \notin DOMAIN cc_results[cc_i].properties
    /\ "0_B01_WTR" \in DOMAIN cc_results[cc_i].assets
    /\ cc_handles' = cc_handles \cup {cc_i}
    /\ cc_opened' = Append(cc_opened, cc_i)
    /\ cc_pc' = "with"
    /\ UNCHANGED <<cc_results, cloud_threshold, cc_i, cloud_cover, filtered_results,
                   cc_return, cc_exc>>
    /\ UNCHANGED <<searchVars, urlsVars, callVars, mosaicVars, greeceVars, flowVars, stall_row>>

\* rasterio.open(href) raises
CcOpenFails ==
    /\ cc_pc = "loop" /\ cc_i <= CcLen
    /\ "eo:cloud_cover" \notin DOMAIN cc_results[cc_i].properties
    /\ "0_B01_WTR" \in DOMAIN cc_results[cc_i].assets
    /\ cc_opened' = Append(cc_opened, cc_i)
    /\ cc_pc' = "raised" /\ cc_exc' = "RasterioIOError"
    /\ filtered_results' = <<>>
    /\ UNCHANGED <<cc_results, cloud_threshold, cc_i, cloud_cover, cc_return,
                   cc_handles>>
    /\ UNCHANGED <<searchVars, urlsVars, callVars, mosaicVars, greeceVars, flowVars, stall_row>>

\* img = ds.read(1).flatten(); cloud_cover = 100*(...); the with block is left
CcReadOk ==
    /\ cc_pc = "with"
    /\ cloud_cover' = cloud_fraction(cc_img(cc_results[cc_i].assets["0_B01_WTR"].href))
    /\ cc_handles' = cc_handles \ {cc_i}
    /\ cc_pc' = "test"
    /\ UNCHANGED <<cc_results, cloud_threshold, cc_i, filtered_results, cc_return,
                   cc_exc, cc_opened>>
    /\ UNCHANGED <<searchVars, urlsVars, callVars, mosaicVars, greeceVars, flowVars, stall_row>>

\* ds.read(1) raises: the with block closes the handle and the exception
\* leaves filter_search_by_cc
CcReadFails ==
    /\ cc_pc = "with"
    /\ cc_handles' = cc_handles \ {cc_i}
    /\ cc_pc' = "raised" /\ cc_exc' = "RasterioIOError"
    /\ filtered_results' = <<>>
    /\ UNCHANGED <<cc_results, cloud_threshold, cc_i, cloud_cover, cc_return,
                   cc_opened>>
    /\ UNCHANGED <<searchVars, urlsVars, callVars, mosaicVars, greeceVars, flowVars, stall_row>>

\* if cloud_cover <= cloud_threshold: filtered_results.append(result)
CcTest ==
    /\ cc_pc = "test"
    /\ filtered_results' = IF cloud_cover <= cloud_threshold
                           THEN Append(filtered_results, cc_i)
                           ELSE filtered_results
    /\ cc_i' = cc_i + 1
    /\ cc_pc' = "loop"
    /\ UNCHANGED <<cc_results, cloud_threshold, cloud_cover, cc_return, cc_exc,
                   cc_opened, cc_handles>>
    /\ UNCHANGED <<searchVars, urlsVars, callVars, mosaicVars, greeceVars, flowVars, stall_row>>

\* return filtered_results
CcReturn ==
    /\ cc_pc = "loop" /\ cc_i > CcLen
    /\ cc_return' = filtered_results
    /\ cc_pc' = "returned"
    /\ filtered_results' = <<>>
    /\ UNCHANGED <<cc_results, cloud_threshold, cc_i, cloud_cover, cc_exc, cc_opened,
                   cc_handles>>
    /\ UNCHANGED <<searchVars, urlsVars, callVars, mosaicVars, greeceVars, flowVars, stall_row>>

-----------------------------------------------------------------------------
(* The cells between search_to_df and urls_to_dataset in the case studies *)

\* 1a-Flooding-case-study, 1b-BhakraNangal-Reservoir, 2b-Maranhao-Deforestation
Workflows == {"1a", "1b", "2b"}

\* the notebooks with a cell `granules = granules[granules.tile_id == ...]`
\* between the two calls
HasTileFilter(w) == w \in {"1a", "2b"}
FilterTile(w) == IF w = "1a" THEN T15RTQ ELSE T23MPS

FlowRows ==
    {[times |-> t, hrefs |-> h, tile_id |-> tile_id_of(h).value] :
        t \in IndexValues, h \in {HREF_T11SQA, HREF_T15RTQ, HREF_T23MPS}}
FlowTables == SeqsUpTo(FlowRows, MaxRows)

\* granules[granules.tile_id == tile]
tile_filter(table, tile) == SelectSeq(table, LAMBDA row : row.tile_id = tile)

\* the orders granules.sort_index() can leave the rows in: ascending index,
\* rows of equal index in any order
sort_index(table) ==
    {[i \in 1..Len(table) |-> table[f[i]]] :
        f \in {g \in [1..Len(table) -> 1..Len(table)] :
                 /\ \A i, j \in 1..Len(table) : i # j => g[i] # g[j]
                 /\ \A i, j \in 1..Len(table) :
                       i < j => table[g[i]].times <= table[g[j]].times}}

\* the cell restricting granules to one tile (and, in 1a, sorting it)
TileFilter ==
    /\ flow_pc = "searched" /\ HasTileFilter(workflow)
    /\ LET kept == tile_filter(granules, FilterTile(workflow))
       IN  IF workflow = "1a"
           THEN granules' \in sort_index(kept)
           ELSE granules' = kept
    /\ flow_pc' = "filtered"
    /\ UNCHANGED <<results, layer_name, search_pc, search_exc, picked, workflow>>
    /\ UNCHANGED <<urlsVars, callVars, mosaicVars, filterVars, greeceVars, stall_row>>

\* dataset = urls_to_dataset(granules): the next cell of the notebook
CallUrls ==
    /\ \/ flow_pc = "filtered"
       \/ flow_pc = "searched" /\ ~HasTileFilter(workflow)
    /\ granule_dataframe' = granules
    /\ pc' = "iter" /\ calls' = calls + 1
    /\ flow_pc' = "called"
    /\ UNCHANGED <<k, open_handles, frame, dataset_list, cube, exc, opened, failed_row,
                   failed_op, past_opens, workflow>>
    /\ UNCHANGED <<searchVars, mosaicVars, filterVars, greeceVars, stall_row>>

\* dataset = urls_to_dataset(granules) on the table search_to_df returned,
\* with no cell in between
CallUrlsAfterSearch ==
    /\ search_pc = "returned" /\ pc = "idle"
    /\ granule_dataframe' = granules
    /\ pc' = "iter" /\ calls' = calls + 1
    /\ UNCHANGED <<k, open_handles, frame, dataset_list, cube, exc, opened, failed_row,
                   failed_op, past_opens>>
    /\ UNCHANGED <<searchVars, mosaicVars, extraVars>>

-----------------------------------------------------------------------------
(* Grouping by day and plotting (04_Case_Studies/2a-Greece-Wildfires.ipynb) *)

MaxGranules == 3    \* longest granules table of the wildfire notebook

\* days are counted from 2023-08-01 (day 1): 2023-08-26 is day 26 and
\* 2023-09-18 is day 49; two times of day
GreeceTimes == {[day |-> d, sec |-> t] : d \in {1, 2, 26, 49}, t \in {33071, 34295}}

\* the URL of the n-th granule
GreeceHref(n) == <<"VEG-DIST-STATUS", n>>

GreeceTables ==
    UNION {{[n \in 1..m |-> [times |-> t[n], hrefs |-> GreeceHref(n)]] :
              t \in [1..m -> GreeceTimes]} : m \in 0..MaxGranules}

\* i.strftime('%Y-%m-%d'): the day, the time of day is dropped
strftime_day(ts) == ts.day

\* datetime.strptime(i, '%Y-%m-%d'): midnight of that day
strptime_day(day) == [day |-> day, sec |-> 0]

\* [datetime(2023, 8, 1), datetime(2023, 8, 26), datetime(2023, 9, 18)]
dates_of_interest ==
    <<[day |-> 1, sec |-> 0], [day |-> 26, sec |-> 0], [day |-> 49, sec |-> 0]>>

RECURSIVE group_by_day(_, _, _)
\* for i, row in granules.iterrows(): refined_granules[i.strftime(...)].append(row.hrefs)
\* a defaultdict keeps its keys in the order of their first insertion
group_by_day(table, n, acc) ==
    IF n > Len(table) THEN acc
    ELSE LET key == strftime_day(table[n].times)
             at == {j \in 1..Len(acc) : acc[j].index = key}
         IN  IF at = {}
             THEN group_by_day(table, n + 1,
                      Append(acc, [index |-> key, hrefs |-> <<table[n].hrefs>>]))
             ELSE group_by_day(table, n + 1,
                      [j \in 1..Len(acc) |->
                          IF j \in at
                          THEN [acc[j] EXCEPT !.hrefs = Append(@, table[n].hrefs)]
                          ELSE acc[j]])

\* the cell grouping granules by date of acquisition
GroupByDay ==
    /\ gr_pc = "grouping"
    /\ refined_granules' = group_by_day(gr_granules, 1, <<>>)
    /\ gr_pc' = "selecting"
    /\ UNCHANGED <<gr_granules, hrefs_of_interest, panels>>
    /\ UNCHANGED <<searchVars, urlsVars, callVars, mosaicVars, filterVars, flowVars,
                   stall_row>>

\* hrefs_of_interest = [x.hrefs for i, x in refined_granules.iterrows()
\*                      if datetime.strptime(i, '%Y-%m-%d') in dates_of_interest]
SelectOfInterest ==
    /\ gr_pc = "selecting"
    /\ LET kept == SelectSeq(refined_granules,
                       LAMBDA x : \E d \in 1..Len(dates_of_interest) :
                                     strptime_day(x.index) = dates_of_interest[d])
       IN  hrefs_of_interest' = [j \in 1..Len(kept) |-> kept[j].hrefs]
    /\ gr_pc' = "plotting"
    /\ UNCHANGED <<gr_granules, refined_granules, panels>>
    /\ UNCHANGED <<searchVars, urlsVars, callVars, mosaicVars, filterVars, flowVars,
                   stall_row>>

\* one pass of `for i, (date, hrefs) in enumerate(zip(dates_of_interest,
\* hrefs_of_interest))`: the rasters of hrefs are shown under the title of date
PlotPanel ==
    /\ gr_pc = "plotting"
    /\ Len(panels) < Len(dates_of_interest) /\ Len(panels) < Len(hrefs_of_interest)
    /\ LET i == Len(panels) + 1
       IN  panels' = Append(panels, [date |-> dates_of_interest[i],
                                     hrefs |-> hrefs_of_interest[i]])
    /\ UNCHANGED <<gr_granules, refined_granules, hrefs_of_interest, gr_pc>>
    /\ UNCHANGED <<searchVars, urlsVars, callVars, mosaicVars, filterVars, flowVars,
                   stall_row>>

\* zip is exhausted: the plotting cell ends
PlotDone ==
    /\ gr_pc = "plotting"
    /\ (Len(panels) = Len(dates_of_interest) \/ Len(panels) = Len(hrefs_of_interest))
    /\ gr_pc' = "done"
    /\ UNCHANGED <<gr_granules, refined_granules, hrefs_of_interest, panels>>
    /\ UNCHANGED <<searchVars, urlsVars, callVars, mosaicVars, filterVars, flowVars,
                   stall_row>>

-----------------------------------------------------------------------------
(* Specifications *)

FilterIdle ==
    /\ cc_results = <<>> /\ cloud_threshold = 10 /\ cc_pc = "idle" /\ cc_i = 1
    /\ cloud_cover = -1 /\ filtered_results = <<>> /\ cc_return = <<>>
    /\ cc_exc = "none" /\ cc_opened = <<>> /\ cc_handles = {}

GreeceIdle ==
    /\ gr_granules = <<>> /\ refined_granules = <<>> /\ hrefs_of_interest = <<>>
    /\ panels = <<>> /\ gr_pc = "idle"

FlowIdle == workflow = "none" /\ flow_pc = "idle"

ExtraIdle == FilterIdle /\ GreeceIdle /\ FlowIdle /\ stall_row = 0


MosaicIdle ==
    /\ m_pc = "idle" /\ merged = NoMerged /\ m_crs = <<>> /\ mosaic = NoCube
    /\ m_exc = "none" /\ m_failed = 0

UrlsIdle ==
    /\ granule_dataframe = <<>> /\ pc = "idle" /\ k = 1 /\ open_handles = {}
    /\ frame = NoFrame /\ dataset_list = <<>> /\ cube = NoCube /\ exc = "none"
    /\ opened = <<>> /\ failed_row = 0 /\ failed_op = "none"
    /\ calls = 0 /\ past_opens = <<>>

SearchIdle ==
    /\ results = <<>> /\ layer_name = L_B01_WTR /\ search_pc = "idle"
    /\ search_exc = "none" /\ picked = <<>> /\ granules = <<>>

\* search_to_df applied to any list of search results and any layer name
SearchInit ==
    /\ results \in ResultLists
    /\ layer_name \in LayerNames
    /\ search_pc = "ready" /\ search_exc = "none"
    /\ picked = <<>> /\ granules = <<>>
    /\ UrlsIdle
    /\ MosaicIdle
    /\ ExtraIdle

SearchNext == search_to_df

SpecSearch == SearchInit /\ [][SearchNext]_vars

\* urls_to_dataset applied to any granule table
UrlsInit ==
    /\ granule_dataframe \in GranuleTables
    /\ pc = "iter" /\ k = 1 /\ open_handles = {}
    /\ frame = NoFrame /\ dataset_list = <<>> /\ cube = NoCube /\ exc = "none"
    /\ opened = <<>> /\ failed_row = 0 /\ failed_op = "none"
    /\ calls = 1 /\ past_opens = <<>>
    /\ SearchIdle
    /\ MosaicIdle
    /\ ExtraIdle

UrlsNext ==
    \/ OpenOk \/ OpenFails \/ ReadOk \/ ReadFails
    \/ ExitWith \/ ExitWithRaise \/ BuildArray \/ Return

SpecUrls == UrlsInit /\ [][UrlsNext]_vars

\* the cell calling urls_to_dataset run up to MaxCalls times on one table
RecallNext == UrlsNext \/ CallAgain

SpecRecall == UrlsInit /\ [][RecallNext]_vars

\* filter_search_by_cc applied to any list of results and any threshold
FilterInit ==
    /\ cc_results \in CcResultLists
    /\ cloud_threshold \in CloudThresholds
    /\ cc_pc = "loop" /\ cc_i = 1
    /\ cloud_cover = -1 /\ filtered_results = <<>> /\ cc_return = <<>>
    /\ cc_exc = "none" /\ cc_opened = <<>> /\ cc_handles = {}
    /\ SearchIdle
    /\ UrlsIdle
    /\ MosaicIdle
    /\ GreeceIdle /\ FlowIdle /\ stall_row = 0

FilterNext ==
    \/ CcFromMetadata \/ CcNoAsset \/ CcOpenOk \/ CcOpenFails
    \/ CcReadOk \/ CcReadFails \/ CcTest \/ CcReturn

SpecFilter == FilterInit /\ [][FilterNext]_vars

\* tables of granules of one acquisition time
StallTables ==
    SeqsUpTo({r \in GranuleRows : r.times = pd_Timestamp([day |-> 1, sec |-> 49451])
                                   /\ r.hrefs \in {HREF_T11SQA, HREF_T15RTQ}},
             MaxRows)

\* urls_to_dataset applied to any granule table, the read of at most one row
\* never returning; a step that can be taken is taken (one thread, no waiting
\* other than on the read itself)
StallInit ==
    /\ granule_dataframe \in StallTables
    /\ stall_row \in 0..MaxRows
    /\ pc = "iter" /\ k = 1 /\ open_handles = {}
    /\ frame = NoFrame /\ dataset_list = <<>> /\ cube = NoCube /\ exc = "none"
    /\ opened = <<>> /\ failed_row = 0 /\ failed_op = "none"
    /\ calls = 1 /\ past_opens = <<>>
    /\ SearchIdle
    /\ MosaicIdle
    /\ FilterIdle /\ GreeceIdle /\ FlowIdle

SpecStall == StallInit /\ [][UrlsNext]_vars /\ WF_vars(UrlsNext)

\* search_to_df, then urls_to_dataset on the table it returned
PipeNext == search_to_df \/ CallUrlsAfterSearch \/ UrlsNext

SpecPipe == SearchInit /\ [][PipeNext]_vars

\* a case-study notebook from the table search_to_df returned onwards
FlowInit ==
    /\ workflow \in Workflows
    /\ granules \in FlowTables
    /\ flow_pc = "searched"
    /\ results = <<>> /\ layer_name = L_B01_WTR /\ search_pc = "returned"
    /\ search_exc = "none" /\ picked = <<>>
    /\ UrlsIdle
    /\ MosaicIdle
    /\ FilterIdle /\ GreeceIdle /\ stall_row = 0

FlowNext == TileFilter \/ CallUrls \/ UrlsNext

SpecFlow == FlowInit /\ [][FlowNext]_vars

\* the grouping, selection and plotting cells run on any granules table
GreeceInit ==
    /\ gr_granules \in GreeceTables
    /\ refined_granules = <<>> /\ hrefs_of_interest = <<>> /\ panels = <<>>
    /\ gr_pc = "grouping"
    /\ SearchIdle
    /\ UrlsIdle
    /\ MosaicIdle
    /\ FilterIdle /\ FlowIdle /\ stall_row = 0

GreeceNext == GroupByDay \/ SelectOfInterest \/ PlotPanel \/ PlotDone

SpecGreece == GreeceInit /\ [][GreeceNext]_vars

\* mosaic_and_dataset applied to any table of tiles
MosaicInit ==
    /\ granule_dataframe \in MosaicTables
    /\ pc = "idle" /\ k = 1 /\ open_handles = {}
    /\ frame = NoFrame /\ dataset_list = <<>> /\ cube = NoCube /\ exc = "none"
    /\ opened = <<>> /\ failed_row = 0 /\ failed_op = "none"
    /\ calls = 0 /\ past_opens = <<>>
    /\ m_pc = "merge" /\ merged = NoMerged /\ m_crs = <<>> /\ mosaic = NoCube
    /\ m_exc = "none" /\ m_failed = 0
    /\ SearchIdle
    /\ ExtraIdle

MosaicNext ==
    \/ MergeOk \/ MergeNoInput \/ MergeFails
    \/ CrsOpenOk \/ CrsOpenFails \/ WrapMosaic

SpecMosaic == MosaicInit /\ [][MosaicNext]_vars

\* urls_to_dataset, then mosaic_and_dataset, applied to the same table
WrapInit ==
    /\ granule_dataframe \in MosaicTables
    /\ pc = "iter" /\ k = 1 /\ open_handles = {}
    /\ frame = NoFrame /\ dataset_list = <<>> /\ cube = NoCube /\ exc = "none"
    /\ opened = <<>> /\ failed_row = 0 /\ failed_op = "none"
    /\ calls = 1 /\ past_opens = <<>>
    /\ SearchIdle
    /\ MosaicIdle
    /\ ExtraIdle

WrapNext == UrlsNext \/ CallMosaic \/ MosaicNext

SpecWrap == WrapInit /\ [][WrapNext]_vars

-----------------------------------------------------------------------------
(* Vocabulary of the properties, stated on positions of characters *)

\* the key contains the layer name as a contiguous substring
KeyHasLayer(key, layer) ==
    \E a \in 0..Len(key) :
        /\ a + Len(layer) <= Len(key)
        /\ SubSeq(key, a + 1, a + Len(layer)) = layer

\* the final '/'-separated segment of a URL
FinalSegment(url) ==
    LET slashes == {i \in 1..Len(url) : url[i] = "/"}
        start == IF slashes = {} THEN 1
                 ELSE (CHOOSE i \in slashes : \A j \in slashes : j <= i) + 1
    IN  SubSeq(url, start, Len(url))

Underscores(s) == {i \in 1..Len(s) : s[i] = "_"}

\* number of underscore-delimited fields of s
NumFields(s) == Cardinality(Underscores(s)) + 1

\* position of the n-th underscore of s; 0 for n = 0, Len(s)+1 when there is none
UnderscoreAt(s, n) ==
    IF n = 0 THEN 0
    ELSE IF Cardinality(Underscores(s)) < n THEN Len(s) + 1
    ELSE CHOOSE i \in Underscores(s) :
            Cardinality({j \in Underscores(s) : j <= i}) = n

\* the n-th underscore-delimited field of s (n counted from 1)
FieldAt(s, n) == SubSeq(s, UnderscoreAt(s, n - 1) + 1, UnderscoreAt(s, n) - 1)

\* the (result position, asset position) pairs whose key contains the layer name
MatchingPairs ==
    UNION {{<<i, j>> : j \in {n \in 1..Len(results[i].assets) :
                                KeyHasLayer(results[i].assets[n].key, layer_name)}} :
           i \in 1..Len(results)}

\* the asset of result i stored under the given key
AssetUnder(i, key) ==
    LET d == results[i].assets
    IN  d[CHOOSE j \in 1..Len(d) : d[j].key = key].value

\* every asset whose key contains the layer name has a well-formed filename
AllFilenamesWellFormed ==
    \A p \in MatchingPairs :
        NumFields(FinalSegment(results[p[1]].assets[p[2]].value.href)) >= 4

SearchDone == search_pc \in {"returned", "raised"}

-----------------------------------------------------------------------------
(* Properties of search_to_df *)

\* C1: for every non-empty list of results and a layer name contained in at
\* least one asset key, search_to_df returns a table with one row per
\* (result, asset key) pair whose key contains the layer name.
C1_RowsEqualMatches ==
    (SearchDone /\ results # <<>> /\ MatchingPairs # {} /\ AllFilenamesWellFormed)
        => (search_pc = "returned" /\ Len(granules) = Cardinality(MatchingPairs))

\* C2: in every returned table, the timestamp of each row is the
\* properties.datetime of the result whose asset supplied that row's URL.
C2_TimestampOfSupplyingResult ==
    search_pc = "returned"
        => \A i \in 1..Len(granules) :
              /\ i <= Len(picked)
              /\ granules[i].hrefs = AssetUnder(picked[i][1], picked[i][2]).href
              /\ granules[i].times
                    = pd_Timestamp(results[picked[i][1]].properties.datetime)

\* the rows the results with at least one matching key contribute, in order
RECURSIVE ExpectedRows(_)
ExpectedRows(i) ==
    IF i > Len(results) THEN <<>>
    ELSE LET d == results[i].assets
             js == SelectSeq([j \in 1..Len(d) |-> j],
                             LAMBDA j : KeyHasLayer(d[j].key, layer_name))
         IN  [n \in 1..Len(js) |->
                 [times |-> pd_Timestamp(results[i].properties.datetime),
                  hrefs |-> d[js[n]].value.href,
                  tile_id |-> FieldAt(FinalSegment(d[js[n]].value.href), 4)]]
             \o ExpectedRows(i + 1)

SomeResultWithoutMatch ==
    \E i \in 1..Len(results) : \A p \in MatchingPairs : p[1] # i

\* C5: a result none of whose asset keys contains the layer name is omitted
\* silently: no error is raised and the rows of the other results are returned.
C5_OmitsSilently ==
    (SearchDone /\ SomeResultWithoutMatch /\ AllFilenamesWellFormed)
        => (search_pc = "returned" /\ granules = ExpectedRows(1))

\* C8: in every returned table, tile_id is the 4th underscore-delimited field
\* of the final '/'-separated segment of the same row's URL; the filename
\* OPERA_L3_DSWx-HLS_T11SQA_20230828T181921Z_B01_WTR.tif yields T11SQA.
C8_TileIdIsFourthField ==
    search_pc = "returned"
        => \A i \in 1..Len(granules) :
              /\ granules[i].tile_id = FieldAt(FinalSegment(granules[i].hrefs), 4)
              /\ granules[i].hrefs = HREF_T11SQA => granules[i].tile_id = T11SQA

C8_Witness ==
    /\ search_pc = "returned"
    /\ \E i \in 1..Len(granules) : granules[i].hrefs = HREF_T11SQA
    /\ \E i \in 1..Len(granules) : granules[i].hrefs = HREF_T15RTQ

\* C9: an asset is selected exactly when its key contains the layer name as a
\* contiguous substring; with keys 0_B01_WTR and 0_B02_BWTR and layer name
\* B01_WTR only the 0_B01_WTR asset is selected.
C9_SelectsExactlySubstringKeys ==
    SearchDone
        => /\ {<<picked[n][1], picked[n][2]>> : n \in 1..Len(picked)}
                = {<<p[1], results[p[1]].assets[p[2]].key>> : p \in MatchingPairs}
           /\ Len(picked) = Cardinality(MatchingPairs)
           /\ layer_name = L_B01_WTR
                => \A n \in 1..Len(picked) : picked[n][2] = K_B01_WTR

C9_Witness ==
    /\ SearchDone
    /\ layer_name = L_B01_WTR
    /\ Len(results) = 1
    /\ {results[1].assets[j].key : j \in 1..Len(results[1].assets)}
            = {K_B01_WTR, K_B02_BWTR}
    /\ picked = << <<1, K_B01_WTR>> >>

SomeSelectedFilenameShort ==
    \E p \in MatchingPairs :
        NumFields(FinalSegment(results[p[1]].assets[p[2]].value.href)) < 4

\* C10: when the filename of a selected asset has fewer than four
\* underscore-delimited fields, search_to_df raises an IndexError and returns
\* no table.
C10_ShortFilenameRaises ==
    (SearchDone /\ SomeSelectedFilenameShort)
        => (search_pc = "raised" /\ search_exc = "IndexError" /\ granules = <<>>)

C10_Witness ==
    /\ search_pc = "raised"
    /\ Len(results) = 2
    /\ SomeSelectedFilenameShort
    /\ \E p \in MatchingPairs :
          NumFields(FinalSegment(results[p[1]].assets[p[2]].value.href)) >= 4

-----------------------------------------------------------------------------
(* Properties of urls_to_dataset *)

HasDim(da, d) == \E i \in 1..Len(da.dims) : da.dims[i] = d
DimLen(da, d) == da.shape[CHOOSE i \in 1..Len(da.dims) : da.dims[i] = d]

\* C3: for every granule table with at least one row, also with exactly one,
\* the returned cube has a time dimension as long as the table.
C3_TimeLengthIsRowCount ==
    (pc = "returned" /\ NRows >= 1)
        => (HasDim(cube, "time") /\ DimLen(cube, "time") = NRows)

\* C4: the time coordinate of the returned cube is the sequence of the
\* table's index values in row order: nothing is re-sorted, dropped or
\* duplicated.
C4_TimeCoordinateInRowOrder ==
    pc = "returned"
        => cube.time = [i \in 1..NRows |-> granule_dataframe[i].times]

\* rows timestamped 2024-03-01T13:44:11Z and 2024-03-01T14:10:05Z, in that order
C4_Witness ==
    /\ pc = "returned"
    /\ NRows = 2
    /\ granule_dataframe[1].times = pd_Timestamp([day |-> 1, sec |-> 49451])
    /\ granule_dataframe[2].times = pd_Timestamp([day |-> 1, sec |-> 51005])
    /\ granule_dataframe[1].tile_id = granule_dataframe[2].tile_id
    /\ cube.time = <<1 * 86400 + 49451, 1 * 86400 + 51005>>

\* C6: once the open or the read of a row has failed, the call fails: no cube
\* is returned, the arrays built from earlier rows are discarded and no later
\* row is opened.
C6_FailureAbortsAssembly ==
    failed_row # 0
        => /\ pc \in {"exit_err", "raised"}
           /\ cube = NoCube
           /\ \A i \in 1..Len(opened) : opened[i] <= failed_row
           /\ pc = "raised" => (exc = "RasterioIOError" /\ dataset_list = <<>>)

C6_Witness ==
    /\ pc = "raised"
    /\ failed_row = 2
    /\ NRows = 3
    /\ opened = <<1, 2>>

\* C7: at most one raster handle is open at any moment: the handle of row k is
\* open only while row k is read, and it is closed, also when the read fails,
\* before the next row is opened and before the call returns or raises.
C7_OneHandleScopedToRead ==
    /\ Cardinality(open_handles) <= 1
    /\ pc \in {"with", "exit_ok", "exit_err"} => open_handles = {k}
    /\ pc \in {"iter", "build", "returned", "raised"} => open_handles = {}

C7_Witness ==
    /\ pc = "raised"
    /\ failed_op = "read"
    /\ failed_row = 2
    /\ open_handles = {}

-----------------------------------------------------------------------------
(* Properties settled next: search_to_df on malformed filenames, coordinates
   and CRS of urls_to_dataset *)

\* C11 (as stated): search_to_df does not fail when the tile-identifier
\* extraction indexes past the end of the underscore split of a selected
\* asset's filename.
C11_DoesNotFailOnShortFilename ==
    (SearchDone /\ SomeSelectedFilenameShort) => search_pc = "returned"

\* C11 (amended): a call of search_to_df in which the tile-identifier
\* extraction indexes past the end of the underscore split of a selected
\* asset's filename ends by raising IndexError.
C11_FailsOnShortFilename ==
    [][(search_pc = "ready" /\ SomeSelectedFilenameShort)
          => (search_pc' = "raised" /\ search_exc' = "IndexError")]_vars

C11_Witness ==
    /\ search_exc = "IndexError"
    /\ Len(results) = 1
    /\ Len(picked) = 1

AbsVal(x) == IF x < 0 THEN 0 - x ELSE x

\* the raster behind row r of the granule table
RasterOfRow(r) == raster_at(granule_dataframe[r].hrefs)

\* C12: for each raster read, lon[i] = xmin + i*|transform[0]|, strictly
\* increasing, and lat[j] = ymax - j*|transform[4]|, strictly decreasing,
\* for every pixel column i and pixel row j of the raster.
C12_CoordinateVectors ==
    \A r \in 1..Len(dataset_list) :
        LET ds == RasterOfRow(r)
            da == dataset_list[r]
            xmin == ds.transform[3]
            ymax == ds.transform[6]
        IN  /\ Len(da.lon) = ds.width
            /\ Len(da.lat) = ds.height
            /\ \A i \in 0..(ds.width - 1) :
                  /\ da.lon[i + 1] = xmin + i * AbsVal(ds.transform[1])
                  /\ i > 0 => da.lon[i + 1] > da.lon[i]
            /\ \A j \in 0..(ds.height - 1) :
                  /\ da.lat[j + 1] = ymax - j * AbsVal(ds.transform[5])
                  /\ j > 0 => da.lat[j + 1] < da.lat[j]

C12_Witness ==
    /\ Len(dataset_list) = 2
    /\ granule_dataframe[1].hrefs = HREF_T11SQA
    /\ granule_dataframe[2].hrefs = HREF_T15RTQ
    /\ Len(dataset_list[2].lon) = 3

\* p / q rounded to the nearest integer (q # 0)
RoundDiv(p, q) ==
    LET n == IF q < 0 THEN 0 - p ELSE p
        d == AbsVal(q)
    IN  (2 * n + d) \div (2 * d)

\* the inverse of the raster's affine transform: (x, y) to (column, row)
InverseTransform(ds, x, y) ==
    <<RoundDiv(x - ds.transform[3], ds.transform[1]),
      RoundDiv(y - ds.transform[6], ds.transform[5])>>

\* C13: for a single raster, (lon[i], lat[j]) mapped back through the inverse
\* of the raster's affine transform and rounded gives the pixel index (i, j),
\* for every pixel column i and row j.
C13_RoundTripPixelIndex ==
    \A r \in 1..Len(dataset_list) :
        LET ds == RasterOfRow(r)
            da == dataset_list[r]
        IN  /\ Len(da.lon) = ds.width
            /\ Len(da.lat) = ds.height
            /\ \A i \in 0..(ds.width - 1), j \in 0..(ds.height - 1) :
                  InverseTransform(ds, da.lon[i + 1], da.lat[j + 1]) = <<i, j>>

C13_Witness ==
    /\ Len(dataset_list) = 1
    /\ granule_dataframe[1].hrefs = HREF_T15RTQ
    /\ InverseTransform(RasterOfRow(1), dataset_list[1].lon[3], dataset_list[1].lat[2])
          = <<2, 1>>

\* the part of a CRS string that follows its last ':'
AfterLastColon(str) ==
    LET colons == {i \in 1..Len(str) : str[i] = ":"}
        start == IF colons = {} THEN 1
                 ELSE (CHOOSE i \in colons : \A j \in colons : j <= i) + 1
    IN  SubSeq(str, start, Len(str))

AllRastersShareCrs ==
    \A r \in 1..NRows : RasterOfRow(r).crs = RasterOfRow(1).crs

\* C14: when all rasters of the table have the same CRS, the CRS tag of the
\* returned cube is that CRS (the code that follows the last ':' of the
\* raster's CRS string).
C14_CrsTagIsCommonCrs ==
    (pc = "returned" /\ AllRastersShareCrs)
        => cube.crs = AfterLastColon(RasterOfRow(1).crs)

C14_Witness ==
    /\ pc = "returned"
    /\ NRows = 2
    /\ granule_dataframe[1].hrefs # granule_dataframe[2].hrefs
    /\ AllRastersShareCrs
    /\ cube.crs = <<"3", "2", "6", "1", "1">>

-----------------------------------------------------------------------------
(* Properties of mosaic_and_dataset *)

\* C15: the CRS tag of the array returned by mosaic_and_dataset is the CRS of
\* the first row's raster, whatever the CRS of the other rows' rasters, and
\* the call never raises because the input CRSs disagree (it raises only when
\* the table is empty or a raster cannot be opened or read).
C15_CrsOfFirstRowOnly ==
    /\ m_pc = "returned" => mosaic.crs = AfterLastColon(RasterOfRow(1).crs)
    /\ m_pc = "raised" => (NRows = 0 \/ m_failed # 0)

C15_Witness ==
    /\ m_pc = "returned"
    /\ NRows = 2
    /\ RasterOfRow(1).crs = CRS_32611
    /\ RasterOfRow(2).crs = CRS_32612
    /\ mosaic.crs = <<"3", "2", "6", "1", "1">>

\* the extent of the raster behind row r: left, bottom, right, top
Extent(r) ==
    LET ds == RasterOfRow(r)
    IN  [xmin |-> ds.transform[3],
         ymin |-> ds.transform[6] - ds.height * AbsVal(ds.transform[5]),
         xmax |-> ds.transform[3] + ds.width * AbsVal(ds.transform[1]),
         ymax |-> ds.transform[6]]

\* the extent of the returned mosaic, from its coordinate vectors
MosaicExtent ==
    LET rx == AbsVal(RasterOfRow(1).transform[1])
        ry == AbsVal(RasterOfRow(1).transform[5])
    IN  [xmin |-> mosaic.lon[1],
         ymin |-> mosaic.lat[Len(mosaic.lat)] - ry,
         xmax |-> mosaic.lon[Len(mosaic.lon)] + rx,
         ymax |-> mosaic.lat[1]]

Min2(a, b) == IF a <= b THEN a ELSE b
Max2(a, b) == IF a >= b THEN a ELSE b

\* the smallest rectangle that contains both extents
UnionExtent(e1, e2) ==
    [xmin |-> Min2(e1.xmin, e2.xmin), ymin |-> Min2(e1.ymin, e2.ymin),
     xmax |-> Max2(e1.xmax, e2.xmax), ymax |-> Max2(e1.ymax, e2.ymax)]

\* the two extents have no interior point in common
NonOverlapping(e1, e2) ==
    \/ e1.xmax <= e2.xmin \/ e2.xmax <= e1.xmin
    \/ e1.ymax <= e2.ymin \/ e2.ymax <= e1.ymin

\* the two extents touch along a piece of an edge
Adjacent(e1, e2) ==
    \/ /\ (e1.xmax = e2.xmin \/ e2.xmax = e1.xmin)
       /\ Min2(e1.ymax, e2.ymax) > Max2(e1.ymin, e2.ymin)
    \/ /\ (e1.ymax = e2.ymin \/ e2.ymax = e1.ymin)
       /\ Min2(e1.xmax, e2.xmax) > Max2(e1.xmin, e2.xmin)

\* the two extents share a whole edge: together they fill their union
ShareWholeEdge(e1, e2) ==
    \/ /\ (e1.xmax = e2.xmin \/ e2.xmax = e1.xmin)
       /\ e1.ymin = e2.ymin /\ e1.ymax = e2.ymax
    \/ /\ (e1.ymax = e2.ymin \/ e2.ymax = e1.ymin)
       /\ e1.xmin = e2.xmin /\ e1.xmax = e2.xmax

SameResolution(r1, r2) ==
    /\ AbsVal(RasterOfRow(r1).transform[1]) = AbsVal(RasterOfRow(r2).transform[1])
    /\ AbsVal(RasterOfRow(r1).transform[5]) = AbsVal(RasterOfRow(r2).transform[5])

PixelCount(r) == RasterOfRow(r).width * RasterOfRow(r).height
MosaicPixelCount == Len(mosaic.lat) * Len(mosaic.lon)

TwoAdjacentTilesMosaicked ==
    /\ m_pc = "returned"
    /\ NRows = 2
    /\ SameResolution(1, 2)
    /\ NonOverlapping(Extent(1), Extent(2))
    /\ Adjacent(Extent(1), Extent(2))

\* C17 (as stated): for every adjacent, non-overlapping placement of two tiles
\* of the same resolution, the mosaic's bounds are the union of the two
\* bounds and its pixel count is the sum of the two pixel counts.
C17_BoundsAndPixelSum ==
    TwoAdjacentTilesMosaicked
        => /\ MosaicExtent = UnionExtent(Extent(1), Extent(2))
           /\ MosaicPixelCount = PixelCount(1) + PixelCount(2)

\* C17 (amended): the mosaic's bounds are the bounding rectangle of the two
\* bounds; its pixel count is the sum of the two pixel counts when the tiles
\* share a whole edge, and larger than the sum otherwise.
C17_BoundsAndPixelSumOnWholeEdge ==
    TwoAdjacentTilesMosaicked
        => /\ MosaicExtent = UnionExtent(Extent(1), Extent(2))
           /\ mosaic.shape[2] = Len(mosaic.lat) /\ mosaic.shape[3] = Len(mosaic.lon)
           /\ ShareWholeEdge(Extent(1), Extent(2))
                => MosaicPixelCount = PixelCount(1) + PixelCount(2)
           /\ ~ShareWholeEdge(Extent(1), Extent(2))
                => MosaicPixelCount > PixelCount(1) + PixelCount(2)

C17_Witness ==
    /\ TwoAdjacentTilesMosaicked
    /\ granule_dataframe[1].hrefs = HREF_T11SRA
    /\ granule_dataframe[2].hrefs = HREF_T11SQA
    /\ MosaicPixelCount = 8

\* C18: if one input tile cannot be opened or read, the call fails and
\* returns no array: no mosaic of the remaining tiles is produced.
C18_UnreadableTileAborts ==
    m_failed # 0
        => (m_pc = "raised" /\ m_exc = "RasterioIOError" /\ mosaic = NoCube)

C18_Witness ==
    /\ m_pc = "raised"
    /\ NRows = 3
    /\ m_failed = 2

OneRecordBothReturned ==
    /\ NRows = 1
    /\ pc = "returned"
    /\ m_pc = "returned"

-----------------------------------------------------------------------------
(* repeated calls of urls_to_dataset *)

RowOrder(n) == [i \in 1..n |-> i]

RECURSIVE OpensIn(_)
OpensIn(calls_made) ==
    IF calls_made = <<>> THEN 0
    ELSE Len(calls_made[1].opens) + OpensIn(Tail(calls_made))

TotalOpens == OpensIn(past_opens) + Len(opened)

AllPastReturned == \A j \in 1..Len(past_opens) : past_opens[j].outcome = "returned"

\* C19 (as stated): every finished call of urls_to_dataset with an n-row
\* table, whatever its outcome, has performed exactly n raster opens.
C19_EveryCallOpensEveryRow ==
    pc \in {"returned", "raised"} => Len(opened) = NRows

\* C19 (amended): a call that returns has opened every row once, in row
\* order; a call that raises at row j has opened rows 1..j only; later calls
\* open again from row 1 whatever earlier calls opened, so calls that all
\* return perform calls * n opens in total.
C19_OpensPerCallNoCache ==
    /\ pc = "returned" => opened = RowOrder(NRows)
    /\ (pc = "raised" /\ failed_row > 0) => opened = RowOrder(failed_row)
    /\ (pc = "raised" /\ failed_row = 0) => (NRows = 0 /\ opened = <<>>)
    /\ \A j \in 1..Len(past_opens) :
          /\ past_opens[j].outcome = "returned"
                => past_opens[j].opens = RowOrder(NRows)
          /\ \E f \in 0..NRows : past_opens[j].opens = RowOrder(f)
    /\ (pc = "returned" /\ AllPastReturned) => TotalOpens = calls * NRows

\* two calls on a table of at least two rows have both returned
C19_Witness ==
    /\ calls = 2 /\ pc = "returned" /\ NRows >= 2
    /\ AllPastReturned
    /\ TotalOpens = 2 * NRows

-----------------------------------------------------------------------------
(* uniqueness of the URLs of a granule table *)

HrefOfPair(p) == results[p[1]].assets[p[2]].value.href

\* the selected assets of the search results point to pairwise distinct files
SelectedHrefsDistinct ==
    \A p, q \in MatchingPairs : p # q => HrefOfPair(p) # HrefOfPair(q)

HrefsUniqueInTable ==
    \A i, j \in 1..Len(granules) : i # j => granules[i].hrefs # granules[j].hrefs

-----------------------------------------------------------------------------
(* Properties of filter_search_by_cc *)

HasCloudMetadata(i) == "eo:cloud_cover" \in DOMAIN cc_results[i].properties
HasWtrAsset(i) == "0_B01_WTR" \in DOMAIN cc_results[i].assets

\* band 1 of the 0_B01_WTR raster of result i, and its pixels of class 253
WtrPixels(i) == cc_img(cc_results[i].assets["0_B01_WTR"].href)
CloudPixels(i) == Len(SelectSeq(WtrPixels(i), LAMBDA v : v = 253))

\* c is the cloud cover of result i: the metadata value when there is one,
\* otherwise the percentage of cloud pixels (c / 100 = cloud pixels / pixels)
IsCloudCoverOf(c, i) ==
    IF HasCloudMetadata(i)
    THEN c = cc_results[i].properties["eo:cloud_cover"]
    ELSE HasWtrAsset(i) /\ c * Len(WtrPixels(i)) = 100 * CloudPixels(i)

\* C22: every result returned by filter_search_by_cc has a cloud cover
\* strictly less than cloud_threshold; a scene at the threshold is not returned.
C22_ReturnedStrictlyBelowThreshold ==
    cc_pc = "returned" =>
        \A n \in 1..Len(cc_return) :
            \E c \in 0..100 : IsCloudCoverOf(c, cc_return[n]) /\ c < cloud_threshold

\* the results whose raster a complete pass opens: those without metadata
RECURSIVE WithoutMetadata(_)
WithoutMetadata(i) ==
    IF i > CcLen THEN <<>>
    ELSE (IF HasCloudMetadata(i) THEN <<>> ELSE <<i>>) \o WithoutMetadata(i + 1)

\* C23: the cloud cover tested for a result is the eo:cloud_cover of its
\* metadata when present, and then no raster is opened for it; otherwise it is
\* 100 * (pixels of band 1 of the 0_B01_WTR raster equal to 253) / (pixels of
\* the band), and the threshold is applied to that value.
C23_CloudCoverFromMetadataOrRaster ==
    /\ cc_pc = "test" =>
          /\ IsCloudCoverOf(cloud_cover, cc_i)
          /\ HasCloudMetadata(cc_i)
                => \A n \in 1..Len(cc_opened) : cc_opened[n] # cc_i
          /\ ~HasCloudMetadata(cc_i)
                => cc_opened[Len(cc_opened)] = cc_i
    /\ cc_pc = "returned" =>
          /\ cc_opened = WithoutMetadata(1)
          /\ \A i \in 1..CcLen :
                (\E n \in 1..Len(cc_return) : cc_return[n] = i)
                  <=> \E c \in 0..100 : IsCloudCoverOf(c, i) /\ c <= cloud_threshold

\* a pass over one result with metadata and one without, the latter kept on
\* the strength of its computed cloud fraction
C23_Witness ==
    /\ cc_pc = "returned" /\ CcLen = 2
    /\ HasCloudMetadata(1) /\ ~HasCloudMetadata(2)
    /\ CloudPixels(2) = 1
    /\ cc_opened = <<2>>
    /\ \E n \in 1..Len(cc_return) : cc_return[n] = 2

\* C28: when a result lacks eo:cloud_cover and has no 0_B01_WTR asset, or its
\* raster cannot be opened or read, the call raises at that result: nothing is
\* returned, the results accepted before are dropped and no later result is
\* examined; so a call that returns met no such result.
C28_FallbackFailureAbortsFilter ==
    /\ cc_pc = "raised" =>
          /\ cc_return = <<>> /\ filtered_results = <<>>
          /\ cc_i <= CcLen /\ ~HasCloudMetadata(cc_i)
          /\ (cc_exc = "KeyError") <=> ~HasWtrAsset(cc_i)
          /\ \A n \in 1..Len(cc_opened) : cc_opened[n] <= cc_i
    /\ cc_pc = "returned" =>
          \A i \in 1..CcLen : ~HasCloudMetadata(i) => HasWtrAsset(i)

\* the second result has no metadata and no 0_B01_WTR asset; the first one
\* had passed the threshold
C28_Witness ==
    /\ cc_pc = "raised" /\ cc_exc = "KeyError" /\ cc_i = 2
    /\ HasCloudMetadata(1)
    /\ cc_results[1].properties["eo:cloud_cover"] <= cloud_threshold
    /\ cc_return = <<>>

-----------------------------------------------------------------------------
(* Properties of the wildfire panels *)

\* the day of acquisition of the granule a URL belongs to
AcquisitionDay(href) ==
    gr_granules[CHOOSE n \in 1..Len(gr_granules) : gr_granules[n].hrefs = href].times.day

\* C29: the i-th plotted panel, titled with the i-th date of interest, shows
\* only rasters acquired on that day, for any granules the search returned.
C29_PanelShowsItsDate ==
    \A i \in 1..Len(panels) :
        /\ panels[i].date = dates_of_interest[i]
        /\ \A n \in 1..Len(panels[i].hrefs) :
               AcquisitionDay(panels[i].hrefs[n]) = panels[i].date.day

-----------------------------------------------------------------------------
(* Properties of the case-study workflows *)

\* C24: in every case-study workflow the table handed to urls_to_dataset has
\* been restricted to a single tile_id: no call is reached with a table
\* holding rows of two different tile identifiers.
C24_CalledWithSingleTile ==
    flow_pc = "called" =>
        \A i, j \in 1..NRows :
            granule_dataframe[i].tile_id = granule_dataframe[j].tile_id

-----------------------------------------------------------------------------
(* Dimensions and coordinate lengths of the arrays *)

\* the largest band count among the rasters of the table
MaxBandCount ==
    CHOOSE c \in {RasterOfRow(r).count : r \in 1..NRows} :
        \A r \in 1..NRows : RasterOfRow(r).count <= c

\* the length of dimension d of the concatenated array before the squeeze
UnsqueezedLen(d) ==
    IF d = "time" THEN NRows
    ELSE IF d = "band" THEN MaxBandCount
    ELSE IF d = "lat" THEN Len(cube.lat)
    ELSE Len(cube.lon)

ExtentIsMultipleOfPixel(fr) ==
    /\ (fr.xmax - fr.xmin) % fr.x_res = 0
    /\ (fr.ymax - fr.ymin) % fr.y_res = 0

\* C27: in urls_to_dataset and in mosaic_and_dataset the lon vector has as
\* many entries as the pixel array has columns and the lat vector as many as
\* it has rows, the extent being a whole number of pixels; so building the
\* labeled array never fails.
C27_CoordinateLengthsMatchArray ==
    /\ pc = "build" =>
          /\ ExtentIsMultipleOfPixel(frame)
          /\ frame.xmax - frame.xmin = frame.img[3] * frame.x_res
          /\ frame.ymax - frame.ymin = frame.img[2] * frame.y_res
    /\ \A r \in 1..Len(dataset_list) :
          /\ Len(dataset_list[r].lon) = RasterOfRow(r).width
          /\ Len(dataset_list[r].lat) = RasterOfRow(r).height
    /\ (pc = "raised" /\ exc = "ValueError") => NRows = 0
    /\ m_pc = "returned" =>
          /\ Len(mosaic.lon) = merged.shape[3]
          /\ Len(mosaic.lat) = merged.shape[2]
    /\ m_pc = "raised" => m_exc # "ValueError"

\* both functions have built their arrays from a table of several rows
C27_Witness ==
    /\ pc = "returned" /\ m_pc = "returned" /\ NRows >= 2
    /\ Len(mosaic.lon) = merged.shape[3] /\ Len(mosaic.lon) >= 2

-----------------------------------------------------------------------------
(* Termination of urls_to_dataset *)

UrlsDone == pc \in {"returned", "raised"}

\* the read of the current row is the one that never returns
Stalled == pc = "with" /\ k = stall_row

NoRowOpenedTwice ==
    /\ Len(opened) <= NRows
    /\ \A i, j \in 1..Len(opened) : i < j => opened[i] < opened[j]

\* C25: there is no timeout. When every open and read returns, the call
\* ends after at most one pass over the rows; when the read of a row never
\* returns, the call stays in that read for ever and no later row is opened.
C25_NoTimeout ==
    /\ []NoRowOpenedTwice
    /\ (stall_row \notin 1..NRows) => <>UrlsDone
    /\ [](Stalled => \A n \in 1..Len(opened) : opened[n] <= stall_row)
    /\ [][Stalled => (Stalled' /\ opened' = opened)]_vars

\* the read of the second of three rows does not return
C25_Witness ==
    /\ Stalled /\ stall_row = 2 /\ NRows = 3
    /\ Len(dataset_list) = 1

-----------------------------------------------------------------------------
(* Empty inputs *)

\* C30: urls_to_dataset called with a table of zero rows opens no raster and
\* raises instead of returning an empty cube; search_to_df called with an
\* empty list of results returns a table of zero rows without error.
C30_EmptyInputs ==
    /\ (UrlsDone /\ NRows = 0) =>
          /\ pc = "raised" /\ exc = "ValueError"
          /\ opened = <<>> /\ cube = NoCube
    /\ (SearchDone /\ results = <<>>) =>
          /\ search_pc = "returned" /\ search_exc = "none"
          /\ granules = <<>>

\* no search result: an empty table is returned, and urls_to_dataset raises on it
C30_Witness ==
    /\ results = <<>> /\ search_pc = "returned" /\ granules = <<>>
    /\ NRows = 0 /\ pc = "raised" /\ opened = <<>>

====
